---- MODULE Spec2Model ----
(***************************************************************************)
(* Model of alephvault.binary.buffers.Buffer: a byte storage addressed at  *)
(* bit granularity through a cursor (bit_position), with a logical length  *)
(* (bit_length) and a growth policy.                                       *)
(*                                                                         *)
(* A buffer value is a record                                              *)
(*   [target, resizable, bit_length, bit_position]                         *)
(* where target is the bytearray (a sequence of 0..255; Python index i is  *)
(* element i+1).  Every method is an operator from a buffer value (and its *)
(* arguments) to an outcome [buf, err, ret, into]: the buffer as the call  *)
(* leaves it (also when it raises half way), the exception raised ("none"  *)
(* if none), the returned value as a sequence (<<>> for None, <<v>> for an *)
(* int, <<0>>/<<1>> for a bool, the bytes for a bytearray), and the        *)
(* caller's array after readinto.                                          *)
(***************************************************************************)
EXTENDS Integers, Sequences, FiniteSets, TLC

VARIABLES
    target,        \* self._target
    resizable,     \* self._resizable
    bit_length,    \* self._bit_length
    bit_position,  \* self.bit_position
    ctor,          \* the constructor call that made the buffer
    op,            \* the last public call: [name, a, b, c]
    err,           \* the exception the last call raised, "none" if none
    ret,           \* what the last call returned
    into,          \* the caller's array after the last readinto
    pre,           \* the buffer value before the last call
    hw,            \* greatest bit_position held right after a successful write
    wonly,         \* only writes and backward cursor moves so far
    steps,         \* number of calls made so far
    pc,            \* position of the round-trip scenarios
    start,         \* round-trip scenarios: the start bit position
    data,          \* the values the caller writes: the items of a round-trip
                   \* scenario, the source of the last bulk write
    got,           \* round-trip scenarios: the values read back
    written,       \* growth scenario: index |-> the byte last written there
    grows          \* growth scenario: number of calls that grew the storage

vars == <<target, resizable, bit_length, bit_position, ctor, op, err, ret,
          into, pre, hw, wonly, steps, pc, start, data, got, written, grows>>

----------------------------------------------------------------------------
(* Bounds of the model.                                                    *)

MaxSteps == 3
MaxWrapLen == 2
MaxSeekOffset == 3
MaxBits == 3
MaxBytes == 2
MaxCursorCapacity == 18
MaxGrowSteps == 5
MaxGrowths == 3
MaxCtorCapacity == 40
MaxCtorLen == 3
MaxGrowDelta == 300

(* Program constants.                                                      *)

INITIAL_CAPACITY == 16
GROW_FLOOR == 256
SEEK_SET == 0
SEEK_CUR == 1
SEEK_END == 2

----------------------------------------------------------------------------
(* Python integer and sequence primitives, as the code uses them.          *)

Min(a, b) == IF a < b THEN a ELSE b
Max(a, b) == IF a > b THEN a ELSE b

RECURSIVE Pow2(_)
Pow2(n) == IF n = 0 THEN 1 ELSE 2 * Pow2(n - 1)

\* a << n and a >> n on unbounded integers (>> rounds towards minus infinity)
Shl(a, n) == a * Pow2(n)
Shr(a, n) == a \div Pow2(n)

\* a & b and a | b on unbounded two's-complement integers
RECURSIVE BitAnd(_, _)
BitAnd(a, b) ==
    IF a = 0 \/ b = 0 THEN 0
    ELSE IF a = -1 THEN b
    ELSE IF b = -1 THEN a
    ELSE (a % 2) * (b % 2) + 2 * BitAnd(a \div 2, b \div 2)

RECURSIVE BitOr(_, _)
BitOr(a, b) ==
    IF a = 0 THEN b
    ELSE IF b = 0 THEN a
    ELSE IF a = -1 \/ b = -1 THEN -1
    ELSE (IF a % 2 = 1 \/ b % 2 = 1 THEN 1 ELSE 0)
         + 2 * BitOr(a \div 2, b \div 2)

\* ~a
BitNot(a) == -a - 1

\* bytearray(n): n zero bytes
Zeros(n) == [i \in 1..n |-> 0]

\* t[i]: a negative index counts from the end; IndexError outside
IndexOk(t, i) == -Len(t) <= i /\ i < Len(t)
GetItem(t, i) == t[(IF i < 0 THEN i + Len(t) ELSE i) + 1]
SetItem(t, i, v) == [t EXCEPT ![(IF i < 0 THEN i + Len(t) ELSE i) + 1] = v]

\* the bound of a slice, as Python's slice.indices clamps it
SliceIndex(i, n) == IF i < 0 THEN Max(i + n, 0) ELSE Min(i, n)

\* t[lo:hi]
GetSlice(t, lo, hi) ==
    SubSeq(t, SliceIndex(lo, Len(t)) + 1, SliceIndex(hi, Len(t)))

\* t[lo:hi] = src: the slice is replaced, the bytearray changes its size when
\* src is not as long as the slice
SetSlice(t, lo, hi, src) ==
    LET l == SliceIndex(lo, Len(t))
        h == Max(SliceIndex(hi, Len(t)), l)
    IN SubSeq(t, 1, l) \o src \o SubSeq(t, h + 1, Len(t))

----------------------------------------------------------------------------
(* Outcomes of a call.                                                     *)

Ok(b, r) == [buf |-> b, err |-> "none", ret |-> r, into |-> <<>>]
Raise(b, kind) == [buf |-> b, err |-> kind, ret |-> <<>>, into |-> <<>>]

----------------------------------------------------------------------------
(* Buffer.__init__                                                         *)

\* the resizable branch of __init__ without the minimum capacity
NewBuffer_no_minimum(initial_capacity) ==
    [target |-> Zeros(initial_capacity),
     resizable |-> TRUE, bit_length |-> 0, bit_position |-> 0]

NewBuffer(initial_capacity) ==
    [target |-> Zeros(Max(INITIAL_CAPACITY, initial_capacity)),
     resizable |-> TRUE, bit_length |-> 0, bit_position |-> 0]

WrapBuffer(t) ==
    [target |-> t, resizable |-> FALSE,
     bit_length |-> Shl(Len(t), 3), bit_position |-> 0]

\* the object __init__ leaves when it raises: no storage was attached
Unconstructed ==
    [target |-> <<>>, resizable |-> FALSE, bit_length |-> 0, bit_position |-> 0]

\* Buffer.__init__, called with target (kind "wrap") or without (kind "new")
construct(call) ==
    IF call.kind = "wrap"
    THEN (IF Len(call.bytes) = 0 THEN Raise(Unconstructed, "ValueError")
          ELSE Ok(WrapBuffer(call.bytes), <<>>))
    ELSE Ok(NewBuffer(call.n), <<>>)

(* Properties.                                                             *)

capacity(b) == Len(b.target)

\* self._bit_length >> 3 + (1 if self._bit_length & 7 else 0): in Python the
\* sum binds tighter than the shift
length(b) ==
    Shr(b.bit_length, 3 + (IF BitAnd(b.bit_length, 7) # 0 THEN 1 ELSE 0))

position(b) == Shr(b.bit_position, 3)

bit_aligned(b) == BitAnd(b.bit_position, 7) = 0

set_position(b, value) == [b EXCEPT !.bit_position = Shl(value, 3)]

----------------------------------------------------------------------------
(* Capacity and growth.                                                    *)

\* _set_capacity without the copy of the old bytes into the new array
set_capacity_no_copy(b, value) ==
    IF ~b.resizable THEN Raise(b, "UnsupportedError")
    ELSE IF value < 0 THEN Raise(b, "ValueError")
    ELSE
        LET moved == IF value < capacity(b)
                     THEN [b EXCEPT !.bit_position = Shl(value, 3)]
                     ELSE b
        IN Ok([moved EXCEPT !.target = Zeros(value)], <<>>)

\* Buffer._set_capacity
set_capacity(b, value) ==
    IF ~b.resizable THEN Raise(b, "UnsupportedError")
    ELSE IF value < 0 THEN Raise(b, "ValueError")     \* bytearray(value)
    ELSE
        LET len_ == Min(value, capacity(b))
            new_array == SetSlice(Zeros(value), 0, len_,
                                  GetSlice(b.target, 0, len_))
            moved == IF value < capacity(b)
                     THEN [b EXCEPT !.bit_position = Shl(value, 3)]
                     ELSE b
        IN Ok([moved EXCEPT !.target = new_array], <<>>)

\* (1 << 31) - 1, summed from halves so that no intermediate value exceeds it
MAX_CAPACITY == (Shl(1, 30) - 1) + Shl(1, 30)

\* the capacity _grow asks for, without the doubling
grow_capacity_no_double(cap, delta) ==
    LET value == delta + cap
    IN IF cap >= Shl(1, 30)
       THEN Max(value, MAX_CAPACITY)
       ELSE Max(value, GROW_FLOOR)

\* the capacity Buffer._grow asks for
grow_capacity(cap, delta) ==
    LET value == delta + cap
    IN IF cap >= Shl(1, 30)
       THEN Max(value, MAX_CAPACITY)
       ELSE Max(Max(value, GROW_FLOOR), cap * 2)

\* Buffer._grow
grow(b, delta) == set_capacity(b, grow_capacity(capacity(b), delta))

\* capacity setter
assign_capacity(b, value) ==
    IF value < length(b) THEN Raise(b, "ValueError")
    ELSE set_capacity(b, value)

\* length setter
assign_length(b, value) ==
    IF value < 0 THEN Raise(b, "ValueError")
    ELSE
        LET g == IF value > capacity(b)
                 THEN grow(b, value - capacity(b))
                 ELSE Ok(b, <<>>)
        IN IF g.err # "none" THEN g
           ELSE Ok([g.buf EXCEPT
                      !.bit_length = Shl(value, 3),
                      !.bit_position = Min(Shl(value, 3), g.buf.bit_position)],
                   <<>>)

----------------------------------------------------------------------------
(* seek                                                                    *)

\* _clamp without its lower limit
clamp_no_floor(b, v) == Min(Shl(capacity(b), 3), v)

\* _clamp of seek
clamp(b, v) == Max(0, Min(Shl(capacity(b), 3), v))

\* the argument seek hands to _clamp: in Python the sum binds tighter than
\* the shift, so the relative mode shifts bit_position + offset
seek_target(b, offset, whence) ==
    IF whence = SEEK_SET THEN Shl(offset, 3)
    ELSE IF whence = SEEK_CUR THEN Shl(b.bit_position + offset, 3)
    ELSE Shl(capacity(b) - offset, 3)

seek(b, offset, whence) ==
    IF whence \in {SEEK_SET, SEEK_CUR, SEEK_END}
    THEN Ok([b EXCEPT !.bit_position = clamp(b, seek_target(b, offset, whence))],
            <<>>)
    ELSE Raise(b, "ValueError")

----------------------------------------------------------------------------
(* Private read and write helpers.                                         *)

\* Buffer._update_length
update_length(b) ==
    IF b.bit_position > b.bit_length
    THEN [b EXCEPT !.bit_length = b.bit_position]
    ELSE b

\* Buffer._has_data_to_read
has_data_to_read(b) == position(b) < length(b)

\* Buffer._write_misaligned: the byte at p + 1 is stored first, then the byte
\* at p, whose value is not masked to 8 bits and is refused by the bytearray
\* when it exceeds 255
write_misaligned(b, value) ==
    LET r == BitAnd(b.bit_position, 7)
        rc == 8 - r
        p == position(b)
    IN IF ~IndexOk(b.target, p + 1) THEN Raise(b, "IndexError")
       ELSE
        LET v1 == BitOr(BitAnd(GetItem(b.target, p + 1), Shl(255, r)),
                        Shr(value, rc))
        IN IF v1 < 0 \/ v1 > 255 THEN Raise(b, "ValueError")
           ELSE
            LET b1 == [b EXCEPT !.target = SetItem(b.target, p + 1, v1)]
            IN IF ~IndexOk(b1.target, p) THEN Raise(b1, "IndexError")
               ELSE
                LET v0 == BitOr(BitAnd(GetItem(b1.target, p), Shr(255, rc)),
                                Shl(value, r))
                IN IF v0 < 0 \/ v0 > 255 THEN Raise(b1, "ValueError")
                   ELSE Ok([b1 EXCEPT
                              !.target = SetItem(b1.target, p, v0),
                              !.bit_position = b1.bit_position + 8], <<>>)

\* Buffer._read_byte_misaligned: the cursor moves before the second byte is
\* fetched, and the two parts are joined without masking to 8 bits
read_byte_misaligned(b) ==
    LET r == BitAnd(b.bit_position, 7)
    IN IF ~IndexOk(b.target, position(b)) THEN Raise(b, "IndexError")
       ELSE
        LET l == Shr(GetItem(b.target, position(b)), r)
            b1 == [b EXCEPT !.bit_position = b.bit_position + 8]
        IN IF ~IndexOk(b1.target, Shr(b1.bit_position, 3))
           THEN Raise(b1, "IndexError")
           ELSE Ok(b1, <<BitOr(l, Shl(GetItem(b1.target,
                                             Shr(b1.bit_position, 3)),
                                     8 - r))>>)

\* Buffer._read_byte_aligned
read_byte_aligned(b) ==
    IF ~IndexOk(b.target, position(b)) THEN Raise(b, "IndexError")
    ELSE Ok(set_position(b, position(b) + 1),
            <<GetItem(b.target, position(b))>>)

\* Buffer._read_byte
read_byte_(b) ==
    IF bit_aligned(b) THEN read_byte_aligned(b) ELSE read_byte_misaligned(b)

----------------------------------------------------------------------------
(* Public reads and writes.                                                *)

\* Buffer.read_byte
read_byte(b) == IF has_data_to_read(b) THEN read_byte_(b) ELSE Ok(b, <<-1>>)

\* Buffer.read_bit: the mask is taken at the cursor after it has moved
read_bit(b) ==
    IF b.bit_position >= b.bit_length THEN Ok(b, <<>>)
    ELSE IF ~IndexOk(b.target, position(b)) THEN Raise(b, "IndexError")
    ELSE
        LET byte == GetItem(b.target, position(b))
            b1 == [b EXCEPT !.bit_position = b.bit_position + 1]
        IN Ok(b1, <<IF BitAnd(byte, Shl(1, BitAnd(b1.bit_position, 7))) # 0
                    THEN 1 ELSE 0>>)

\* Buffer.write_byte
write_byte(b, value) ==
    IF value < 0 \/ value > 255 THEN Raise(b, "ValueError")
    ELSE IF bit_aligned(b) THEN
        LET g == IF position(b) + 1 >= capacity(b) THEN grow(b, 1)
                 ELSE Ok(b, <<>>)
        IN IF g.err # "none" THEN g
           ELSE IF ~IndexOk(g.buf.target, position(g.buf))
           THEN Raise(g.buf, "IndexError")
           ELSE Ok(update_length(
                     set_position(
                       [g.buf EXCEPT !.target =
                           SetItem(g.buf.target, position(g.buf), value)],
                       position(g.buf) + 1)), <<>>)
    ELSE
        LET g == IF position(b) + 2 >= capacity(b) THEN grow(b, 1)
                 ELSE Ok(b, <<>>)
        IN IF g.err # "none" THEN g
           ELSE LET w == write_misaligned(g.buf, value)
                IN IF w.err # "none" THEN w
                   ELSE Ok(update_length(w.buf), <<>>)

\* write_bit that sets the bit and never clears it
write_bit_no_clear(b, bit) ==
    LET p == position(b)
        g == IF bit_aligned(b) /\ position(b) = capacity(b) THEN grow(b, 1)
             ELSE Ok(b, <<>>)
    IN IF g.err # "none" THEN g
       ELSE
        LET r == BitAnd(g.buf.bit_position, 7)
        IN IF ~IndexOk(g.buf.target, p) THEN Raise(g.buf, "IndexError")
           ELSE Ok(update_length(
                     [g.buf EXCEPT
                        !.target = SetItem(g.buf.target, p,
                            BitOr(GetItem(g.buf.target, p), Shl(bit, r))),
                        !.bit_position = g.buf.bit_position + 1]), <<>>)

\* Buffer.write_bit: p is read before the buffer may grow
write_bit(b, bit) ==
    LET p == position(b)
        g == IF bit_aligned(b) /\ position(b) = capacity(b) THEN grow(b, 1)
             ELSE Ok(b, <<>>)
    IN IF g.err # "none" THEN g
       ELSE
        LET r == BitAnd(g.buf.bit_position, 7)
        IN IF ~IndexOk(g.buf.target, p) THEN Raise(g.buf, "IndexError")
           ELSE Ok(update_length(
                     [g.buf EXCEPT
                        !.target = SetItem(g.buf.target, p,
                            BitOr(BitAnd(GetItem(g.buf.target, p),
                                         BitNot(Shl(1, r))),
                                  Shl(bit, r))),
                        !.bit_position = g.buf.bit_position + 1]), <<>>)

\* the loop of Buffer.write on a misaligned cursor, from index idx on
RECURSIVE write_loop(_, _, _, _, _)
write_loop(b, src, offset, size, idx) ==
    IF idx >= size THEN Ok(b, <<size>>)
    ELSE IF ~IndexOk(src, offset + idx) THEN Raise(b, "IndexError")
    ELSE LET w == write_misaligned(b, GetItem(src, offset + idx))
         IN IF w.err # "none" THEN w
            ELSE write_loop(w.buf, src, offset, size, idx + 1)

\* Buffer.write: the aligned branch assigns a slice and moves nothing, the
\* misaligned branch moves the cursor; neither updates the length
write(b, src, offset, size0) ==
    LET pos == position(b)
        len_ == Len(src)
        size == IF size0 < 0 THEN len_
                ELSE IF size0 > len_ THEN len_ ELSE size0
    IN IF bit_aligned(b) THEN
        LET g == IF pos + size >= capacity(b) THEN grow(b, size)
                 ELSE Ok(b, <<>>)
        IN IF g.err # "none" THEN g
           ELSE Ok([g.buf EXCEPT !.target =
                       SetSlice(g.buf.target, pos, pos + size,
                                GetSlice(src, offset, offset + size))],
                   <<size>>)
       ELSE
        LET g == IF pos + size + 1 >= capacity(b) THEN grow(b, size)
                 ELSE Ok(b, <<>>)
        IN IF g.err # "none" THEN g
           ELSE write_loop(g.buf, src, offset, size, 0)

\* the loop of Buffer.readinto, from index idx on; the bytearray refuses a
\* value outside 0..255 before it looks at the index
RECURSIVE readinto_loop(_, _, _, _, _)
readinto_loop(b, arr, offset, len_, idx) ==
    IF idx >= len_ THEN [Ok(b, <<len_>>) EXCEPT !.into = arr]
    ELSE LET rd == read_byte_(b)
         IN IF rd.err # "none" THEN [rd EXCEPT !.into = arr]
            ELSE IF rd.ret[1] < 0 \/ rd.ret[1] > 255
            THEN [Raise(rd.buf, "ValueError") EXCEPT !.into = arr]
            ELSE IF ~IndexOk(arr, offset + idx)
            THEN [Raise(rd.buf, "IndexError") EXCEPT !.into = arr]
            ELSE readinto_loop(rd.buf, SetItem(arr, offset + idx, rd.ret[1]),
                               offset, len_, idx + 1)

\* Buffer.readinto: the bound is taken from the capacity, not from the length
readinto(b, arr, offset, size0) ==
    LET max_length == capacity(b) - position(b) - 1
                      + (IF bit_aligned(b) THEN 1 ELSE 0)
        size == IF size0 < 0 THEN Len(arr) ELSE size0
        len_ == Min(size, max_length)
    IN readinto_loop(b, arr, offset, len_, 0)

\* Buffer.read
read(b, size) ==
    LET rd == readinto(b, Zeros(length(b)), 0, size)
    IN IF rd.err # "none" THEN rd
       ELSE [rd EXCEPT !.ret = GetSlice(rd.into, 0, rd.ret[1])]

\* truncate, readline, readlines, writelines
unsupported(b) == Raise(b, "UnsupportedError")

----------------------------------------------------------------------------
(* The state machine: one buffer and its caller.                           *)

Self == [target |-> target, resizable |-> resizable,
         bit_length |-> bit_length, bit_position |-> bit_position]

\* assignment to the plain attribute bit_position
assign_bit_position(b, value) == Ok([b EXCEPT !.bit_position = value], <<>>)

\* assignment to the property position
assign_position(b, value) == Ok(set_position(b, value), <<>>)

WriteOps == {"write_byte", "write_bit", "write"}
MoveOps == {"seek", "set_position", "set_bit_position"}

\* the buffer values a constructor call can give
ByteSeqs(vals, n) == UNION {[1..k -> vals] : k \in 1..n}
WrapBytes == {1, 200}
Constructed ==
    {[call |-> [kind |-> "new", n |-> c, bytes |-> <<>>], buf |-> NewBuffer(c)]
        : c \in {0, INITIAL_CAPACITY, MaxCursorCapacity}}
    \cup
    {[call |-> [kind |-> "wrap", n |-> Len(t), bytes |-> t], buf |-> WrapBuffer(t)]
        : t \in ByteSeqs(WrapBytes, MaxWrapLen)}

InitBuffer(c, mode) ==
    /\ target = c.buf.target
    /\ resizable = c.buf.resizable
    /\ bit_length = c.buf.bit_length
    /\ bit_position = c.buf.bit_position
    /\ ctor = c.call
    /\ op = [name |-> "init", a |-> 0, b |-> 0, c |-> 0]
    /\ err = "none"
    /\ ret = <<>>
    /\ into = <<>>
    /\ pre = c.buf
    /\ hw = 0
    /\ wonly = c.buf.resizable
    /\ steps = 0
    /\ pc = mode
    /\ written = <<>>
    /\ grows = 0

\* the caller of the general specification makes at most MaxSteps calls; the
\* round-trip scenarios count their calls
Tick ==
    IF pc = "api" THEN steps < MaxSteps /\ steps' = steps + 1
    ELSE IF pc = "cursor" THEN steps' = steps
    ELSE IF pc = "grow" THEN steps < MaxGrowSteps /\ steps' = steps + 1
    ELSE steps' = steps + 1

\* a public call with outcome o
Call(name, a, b, c, o) ==
    /\ Tick
    /\ target' = o.buf.target
    /\ resizable' = o.buf.resizable
    /\ bit_length' = o.buf.bit_length
    /\ bit_position' = o.buf.bit_position
    /\ op' = [name |-> name, a |-> a, b |-> b, c |-> c]
    /\ err' = o.err
    /\ ret' = o.ret
    /\ into' = o.into
    /\ pre' = Self
    /\ hw' = IF name \in WriteOps /\ o.err = "none"
             THEN Max(hw, o.buf.bit_position) ELSE hw
    /\ wonly' = /\ wonly
                /\ o.err = "none"
                /\ \/ name \in WriteOps
                   \/ /\ name \in MoveOps
                      /\ o.buf.bit_position <= bit_position
    /\ UNCHANGED ctor

Seek(offset, whence) ==
    /\ pc \in {"api", "cursor"}
    /\ Call("seek", offset, whence, 0, seek(Self, offset, whence))
    /\ UNCHANGED <<pc, start, data, got, written, grows>>

SetPosition(value) ==
    /\ pc \in {"api", "cursor"}
    /\ Call("set_position", value, 0, 0, assign_position(Self, value))
    /\ UNCHANGED <<pc, start, data, got, written, grows>>

SetBitPosition(value) ==
    /\ pc \in {"api", "cursor"}
    /\ Call("set_bit_position", value, 0, 0, assign_bit_position(Self, value))
    /\ UNCHANGED <<pc, start, data, got, written, grows>>

SetCapacity(value) ==
    /\ pc \in {"api", "cursor"}
    /\ Call("set_capacity", value, 0, 0, assign_capacity(Self, value))
    /\ UNCHANGED <<pc, start, data, got, written, grows>>

SetLength(value) ==
    /\ pc = "api"
    /\ Call("set_length", value, 0, 0, assign_length(Self, value))
    /\ UNCHANGED <<pc, start, data, got, written, grows>>

ReadByte ==
    /\ pc = "api"
    /\ Call("read_byte", 0, 0, 0, read_byte(Self))
    /\ UNCHANGED <<pc, start, data, got, written, grows>>

ReadBit ==
    /\ pc = "api"
    /\ Call("read_bit", 0, 0, 0, read_bit(Self))
    /\ UNCHANGED <<pc, start, data, got, written, grows>>

ReadInto(n, offset, size) ==
    /\ pc = "api"
    /\ Call("readinto", n, offset, size, readinto(Self, Zeros(n), offset, size))
    /\ UNCHANGED <<pc, start, data, got, written, grows>>

Read(size) ==
    /\ pc = "api"
    /\ Call("read", size, 0, 0, read(Self, size))
    /\ UNCHANGED <<pc, start, data, got, written, grows>>

WriteByte(value) ==
    /\ pc = "api"
    /\ Call("write_byte", value, 0, 0, write_byte(Self, value))
    /\ UNCHANGED <<pc, start, data, got, written, grows>>

WriteBit(bit) ==
    /\ pc = "api"
    /\ Call("write_bit", bit, 0, 0, write_bit(Self, bit))
    /\ UNCHANGED <<pc, start, data, got, written, grows>>

Write(src, offset, size) ==
    /\ pc = "api"
    /\ Call("write", Len(src), offset, size, write(Self, src, offset, size))
    /\ data' = src
    /\ UNCHANGED <<pc, start, got, written, grows>>

Unsupported(name) ==
    /\ pc = "api"
    /\ Call(name, 0, 0, 0, unsupported(Self))
    /\ UNCHANGED <<pc, start, data, got, written, grows>>

(* Inputs of the general specification.                                    *)

Whences == {SEEK_SET, SEEK_CUR, SEEK_END, SEEK_END + 1}
ApiOffsets == {-MaxSeekOffset, -1, 1, MaxSeekOffset}
ApiPositions == {1, INITIAL_CAPACITY + MaxWrapLen}
ApiBitPositions == {-8, MaxSeekOffset, 8 * INITIAL_CAPACITY - MaxSeekOffset,
                    8 * INITIAL_CAPACITY}
ApiSizes == {-1, 0, 1, INITIAL_CAPACITY + 1}
ApiBytes == {1, 255, 256}
ApiSources == {<<7>>, <<200, 9>>}
ApiReadIntos == {<<2, 0, -1>>, <<1, 1, 1>>, <<2, 0, 1>>}

Init ==
    /\ \E c \in Constructed : InitBuffer(c, "api")
    /\ start = 0
    /\ data = <<>>
    /\ got = <<>>

Next ==
    \/ \E offset \in ApiOffsets, whence \in Whences : Seek(offset, whence)
    \/ \E value \in ApiPositions : SetPosition(value)
    \/ \E value \in ApiBitPositions : SetBitPosition(value)
    \/ \E value \in ApiSizes : SetCapacity(value)
    \/ \E value \in ApiSizes : SetLength(value)
    \/ ReadByte
    \/ ReadBit
    \/ \E a \in ApiReadIntos : ReadInto(a[1], a[2], a[3])
    \/ \E size \in {-1, 1, 2} : Read(size)
    \/ \E value \in ApiBytes : WriteByte(value)
    \/ \E bit \in {0, 1} : WriteBit(bit)
    \/ \E src \in ApiSources, offset \in {0, 1}, size \in {-1, 1} :
          Write(src, offset, size)
    \/ \E name \in {"truncate", "readline", "readlines", "writelines"} :
          Unsupported(name)

Spec == Init /\ [][Next]_vars

----------------------------------------------------------------------------
(* The cursor specification: seeks, cursor and capacity assignments on a   *)
(* buffer nothing is written to, with no bound on the number of calls.     *)

CursorOffsets ==
    -(MaxCursorCapacity + MaxSeekOffset) .. (MaxCursorCapacity + MaxSeekOffset)
CursorPositions == {0, 1, MaxCursorCapacity + 1}
CursorBitPositions == {-1, MaxSeekOffset, 8 * MaxCursorCapacity + MaxSeekOffset}
CursorCapacities == {0, 1, MaxCursorCapacity}

InitCursor ==
    /\ \E c \in Constructed : InitBuffer(c, "cursor")
    /\ start = 0
    /\ data = <<>>
    /\ got = <<>>

NextCursor ==
    \/ \E offset \in CursorOffsets, whence \in Whences : Seek(offset, whence)
    \/ \E value \in CursorPositions : SetPosition(value)
    \/ \E value \in CursorBitPositions : SetBitPosition(value)
    \/ \E value \in CursorCapacities : SetCapacity(value)

SpecCursor == InitCursor /\ [][NextCursor]_vars

----------------------------------------------------------------------------
(* The round-trip scenarios: on a fresh resizable buffer the caller moves  *)
(* the cursor to start, writes data item by item, moves the cursor back to *)
(* start and reads as many items back.  A call that raises ends the        *)
(* scenario.                                                               *)

InitRoundTrip(starts, items) ==
    /\ InitBuffer([call |-> [kind |-> "new", n |-> INITIAL_CAPACITY,
                             bytes |-> <<>>],
                   buf |-> NewBuffer(INITIAL_CAPACITY)], "seek")
    /\ start \in starts
    /\ data \in items
    /\ got = <<>>

RtSeek ==
    /\ pc = "seek"
    /\ Call("set_bit_position", start, 0, 0, assign_bit_position(Self, start))
    /\ pc' = "write"
    /\ UNCHANGED <<start, data, got, written, grows>>

RtWrite(name, o) ==
    /\ pc = "write"
    /\ Call(name, data[steps], 0, 0, o)
    /\ pc' = IF o.err # "none" THEN "done"
             ELSE IF steps = Len(data) THEN "rewind" ELSE "write"
    /\ UNCHANGED <<start, data, got, written, grows>>

RtRewind ==
    /\ pc = "rewind"
    /\ Call("set_bit_position", start, 0, 0, assign_bit_position(Self, start))
    /\ pc' = "read"
    /\ UNCHANGED <<start, data, got, written, grows>>

RtRead(name, o) ==
    /\ pc = "read"
    /\ Call(name, 0, 0, 0, o)
    /\ got' = Append(got, o.ret)
    /\ pc' = IF o.err # "none" \/ Len(got) + 1 = Len(data) THEN "done"
             ELSE "read"
    /\ UNCHANGED <<start, data, written, grows>>

RtWriteBit == RtWrite("write_bit", write_bit(Self, data[steps]))
RtReadBit == RtRead("read_bit", read_bit(Self))
RtWriteByte == RtWrite("write_byte", write_byte(Self, data[steps]))
RtReadByte == RtRead("read_byte", read_byte(Self))

\* what reading data back item by item returns
Returned(items) == [i \in 1..Len(items) |-> <<items[i]>>]

InitBits ==
    InitRoundTrip(0 .. 8 * INITIAL_CAPACITY, ByteSeqs({0, 1}, MaxBits))

NextBits == RtSeek \/ RtWriteBit \/ RtRewind \/ RtReadBit

SpecBits == InitBits /\ [][NextBits]_vars

RoundTripBytes == {0, 1, 127, 128, 255}

InitBytes ==
    InitRoundTrip(0 .. 8 * MaxBytes + 7, ByteSeqs(RoundTripBytes, MaxBytes))

NextBytes == RtSeek \/ RtWriteByte \/ RtRewind \/ RtReadByte

SpecBytes == InitBytes /\ [][NextBytes]_vars

----------------------------------------------------------------------------
(* The growth scenario: on a fresh resizable buffer the caller writes      *)
(* bytes, bits and byte strings and raises the length, moving the cursor   *)
(* between the writes, until the storage has grown MaxGrowths times.       *)
(* written remembers, for every storage index a whole byte was written to  *)
(* and no later write targeted, the byte and the number of growths before  *)
(* it was written.                                                         *)

\* the storage indexes a write call on b targets (n is the size of a bulk
\* write)
Targeted(name, b, n) ==
    LET p == position(b)
    IN IF name = "write_bit" THEN {p}
       ELSE IF name = "write_byte"
       THEN (IF bit_aligned(b) THEN {p} ELSE {p, p + 1})
       ELSE IF name = "write"
       THEN (IF bit_aligned(b) THEN p .. (p + n - 1) ELSE p .. (p + n))
       ELSE {}

\* a call of the growth scenario with outcome o that stores the whole bytes
\* bytes from index at on (none when it raises)
GrowCall(name, a, b, c, o, at, bytes) ==
    LET grew == capacity(o.buf) > capacity(Self)
        gone == Targeted(name, Self, a)
        new == IF o.err = "none" THEN at .. (at + Len(bytes) - 1) ELSE {}
    IN /\ pc = "grow"
       /\ grows + (IF grew THEN 1 ELSE 0) <= MaxGrowths
       /\ Call(name, a, b, c, o)
       /\ grows' = grows + (IF grew THEN 1 ELSE 0)
       /\ written' = [i \in (DOMAIN written \ gone) \cup new |->
                        IF i \in new
                        THEN [value |-> bytes[i - at + 1], at |-> grows]
                        ELSE written[i]]
       /\ UNCHANGED <<pc, start, got>>

GrowWriteByte(value) ==
    /\ GrowCall("write_byte", value, 0, 0, write_byte(Self, value),
                position(Self),
                IF bit_aligned(Self) THEN <<value>> ELSE <<>>)
    /\ UNCHANGED data

GrowWriteBit(bit) ==
    /\ GrowCall("write_bit", bit, 0, 0, write_bit(Self, bit), 0, <<>>)
    /\ UNCHANGED data

GrowWrite(src) ==
    /\ GrowCall("write", Len(src), 0, -1, write(Self, src, 0, -1),
                position(Self),
                IF bit_aligned(Self) THEN src ELSE <<>>)
    /\ data' = src

\* the length is raised above the capacity
GrowSetLength ==
    /\ GrowCall("set_length", capacity(Self) + 1, 0, 0,
                assign_length(Self, capacity(Self) + 1), 0, <<>>)
    /\ UNCHANGED data

\* the caller moves the cursor; a second move in a row would only replace
\* the first
GrowSetBitPosition(value) ==
    /\ op.name # "set_bit_position"
    /\ GrowCall("set_bit_position", value, 0, 0,
                assign_bit_position(Self, value), 0, <<>>)
    /\ UNCHANGED data

GrowBytes == {1, 255}
GrowSources == {<<200, 9>>}
\* the start, a misaligned cursor, the last byte, a misaligned cursor in the
\* byte before it, the end of the storage
GrowCursors(b) ==
    {0, 3, 8 * (capacity(b) - 2) + 3, 8 * (capacity(b) - 1), 8 * capacity(b)}

InitGrowth ==
    /\ InitBuffer([call |-> [kind |-> "new", n |-> INITIAL_CAPACITY,
                             bytes |-> <<>>],
                   buf |-> NewBuffer(INITIAL_CAPACITY)], "grow")
    /\ start = 0
    /\ data = <<>>
    /\ got = <<>>

NextGrowth ==
    \/ \E value \in GrowBytes : GrowWriteByte(value)
    \/ \E bit \in {0, 1} : GrowWriteBit(bit)
    \/ \E src \in GrowSources : GrowWrite(src)
    \/ GrowSetLength
    \/ \E value \in GrowCursors(Self) : GrowSetBitPosition(value)

SpecGrowth == InitGrowth /\ [][NextGrowth]_vars

----------------------------------------------------------------------------
(* The construction scenario: one call of the constructor.                 *)

CtorBytes == {0, 1, 200, 255}
CtorCalls ==
    {[kind |-> "new", n |-> c, bytes |-> <<>>] : c \in -1 .. MaxCtorCapacity}
    \cup
    {[kind |-> "wrap", n |-> Len(t), bytes |-> t]
        : t \in {<<>>} \cup ByteSeqs(CtorBytes, MaxCtorLen)}

InitCtor ==
    /\ InitBuffer([call |-> [kind |-> "none", n |-> 0, bytes |-> <<>>],
                   buf |-> Unconstructed], "ctor")
    /\ start = 0
    /\ data = <<>>
    /\ got = <<>>

Construct(call) ==
    LET o == construct(call)
    IN /\ pc = "ctor"
       /\ op.name = "init"
       /\ target' = o.buf.target
       /\ resizable' = o.buf.resizable
       /\ bit_length' = o.buf.bit_length
       /\ bit_position' = o.buf.bit_position
       /\ ctor' = call
       /\ op' = [name |-> "construct", a |-> call.n, b |-> 0, c |-> 0]
       /\ err' = o.err
       /\ ret' = o.ret
       /\ into' = o.into
       /\ pre' = Self
       /\ wonly' = o.buf.resizable
       /\ steps' = steps + 1
       /\ UNCHANGED <<hw, pc, start, data, got, written, grows>>

NextCtor == \E call \in CtorCalls : Construct(call)

SpecCtor == InitCtor /\ [][NextCtor]_vars

----------------------------------------------------------------------------
(* The growth size: _grow's computation of the new capacity, applied to a  *)
(* capacity start and a requested delta data[1]; got holds the result.     *)
(* The inputs keep capacity + delta within (1 << 31) - 1.                  *)

GrowCapacities ==
    {0, 1, INITIAL_CAPACITY, GROW_FLOOR \div 2, GROW_FLOOR - 1, GROW_FLOOR,
     GROW_FLOOR + 1, 2 * GROW_FLOOR, Shl(1, 30) - MaxGrowDelta,
     Shl(1, 30) - 1, Shl(1, 30), Shl(1, 30) + 1,
     MAX_CAPACITY - MaxGrowDelta - 1, MAX_CAPACITY - MaxGrowDelta}
GrowDeltas ==
    {1, 2, GROW_FLOOR \div 2, GROW_FLOOR - INITIAL_CAPACITY, GROW_FLOOR,
     MaxGrowDelta}

InitGrowCapacity ==
    /\ InitBuffer([call |-> [kind |-> "new", n |-> INITIAL_CAPACITY,
                             bytes |-> <<>>],
                   buf |-> NewBuffer(INITIAL_CAPACITY)], "grow_capacity")
    /\ start \in GrowCapacities
    /\ data \in {<<d>> : d \in GrowDeltas}
    /\ got = <<>>

GrowCapacity ==
    /\ pc = "grow_capacity"
    /\ op.name = "init"
    /\ op' = [name |-> "grow_capacity", a |-> start, b |-> data[1], c |-> 0]
    /\ got' = <<grow_capacity(start, data[1])>>
    /\ steps' = steps + 1
    /\ UNCHANGED <<target, resizable, bit_length, bit_position, ctor, err,
                   ret, into, pre, hw, wonly, pc, start, data, written, grows>>

NextGrowCapacity == GrowCapacity

SpecGrowCapacity == InitGrowCapacity /\ [][NextGrowCapacity]_vars

----------------------------------------------------------------------------
(* The claims.                                                             *)

\* C1 (round-trip bits): on a resizable buffer, M >= 1 bits written with
\* write_bit from any start bit position in 0..capacity*8 and read back with
\* read_bit from the same start are returned unchanged and in order.
C1_RoundTripBits ==
    pc = "done" => err = "none" /\ got = Returned(data)

\* C2 (round-trip bytes): on a resizable buffer, N >= 1 byte values written
\* with write_byte from a start bit position of any alignment 0..7 and read
\* back with read_byte from the same start are returned unchanged and in
\* order, with no error and no no-data sentinel.
C2_RoundTripBytes ==
    pc = "done" =>
        /\ err = "none"
        /\ got = Returned(data)
        /\ \A i \in 1..Len(got) : got[i] # <<-1>>

\* C3 (high-water length): on a fresh resizable buffer, after writes
\* interleaved with backward cursor moves, length equals ceil(H/8) where H is
\* the greatest bit position the cursor held right after a write, and is the
\* bit length rounded up to whole bytes.
C3_HighWaterLength ==
    wonly => /\ length(Self) = (hw + 7) \div 8
             /\ length(Self) = (bit_length + 7) \div 8

\* the number of bytes a bulk write of a source of n bytes with size size0
\* writes
WriteCount(n, size0) == IF size0 < 0 \/ size0 > n THEN n ELSE size0

\* the last call was a write or a length assignment that needs more storage
\* than the buffer had
NeedsGrowth ==
    \/ /\ op.name = "write_byte"
       /\ op.a \in 0..255
       /\ pre.bit_position + 8 > 8 * capacity(pre)
    \/ /\ op.name = "write_bit"
       /\ pre.bit_position + 1 > 8 * capacity(pre)
    \/ /\ op.name = "write"
       /\ WriteCount(op.a, op.c) >= 1
       /\ pre.bit_position + 8 * WriteCount(op.a, op.c) > 8 * capacity(pre)
    \/ /\ op.name = "set_length"
       /\ op.a > capacity(pre)

\* C4 (fixed buffer rejects growth): on a buffer wrapping N >= 1 bytes every
\* write_byte, write_bit, bulk write or length assignment that needs a
\* capacity above N raises UnsupportedError and leaves the storage, the
\* capacity, bit_length and bit_position unchanged.
C4_FixedRejectsGrowth ==
    (ctor.kind = "wrap" /\ NeedsGrowth) =>
        err = "UnsupportedError" /\ Self = pre

\* C5 (fixed capacity is immutable): a buffer wrapping N bytes has capacity N
\* and is not resizable after any sequence of public calls.
C5_FixedCapacityImmutable ==
    ctor.kind = "wrap" => capacity(Self) = ctor.n /\ ~resizable

\* the bit position the seek arithmetic of the specification asks for
IntendedSeekTarget(b, offset, whence) ==
    IF whence = SEEK_SET THEN offset * 8
    ELSE IF whence = SEEK_CUR THEN b.bit_position + offset * 8
    ELSE (capacity(b) - offset) * 8

\* C6 (seek arithmetic): seek scales the byte offset by 8 before combining it
\* with the reference point (start, cursor or end) and clamps the result into
\* [0, capacity*8]; storage, capacity and bit_length are unchanged.
C6_SeekArithmetic ==
    (op.name = "seek" /\ op.b \in {SEEK_SET, SEEK_CUR, SEEK_END}) =>
        /\ bit_position =
             Max(0, Min(8 * capacity(pre),
                        IntendedSeekTarget(pre, op.a, op.b)))
        /\ target = pre.target
        /\ bit_length = pre.bit_length

C8_LengthWithinStorage ==
    0 <= bit_length /\ bit_length <= 8 * capacity(Self)

\* C9 (cursor stays inside storage): 0 <= bit_position <= capacity*8 in every
\* reachable state.
C9_CursorWithinStorage ==
    0 <= bit_position /\ bit_position <= 8 * capacity(Self)

\* C10 (failure atomicity): a public call that raises leaves the storage,
\* the capacity, bit_length and bit_position as they were before the call.
C10_FailureAtomicity ==
    err # "none" => Self = pre

\* the logical length in whole bytes: bit_length rounded up
TrueLength(b) == (b.bit_length + 7) \div 8

\* bit k of the storage t, and the 8 bits from bit q on as a number
StoredBit(t, k) == (GetItem(t, k \div 8) \div Pow2(k % 8)) % 2
StoredByte(t, q) ==
    StoredBit(t, q) + 2 * StoredBit(t, q + 1) + 4 * StoredBit(t, q + 2)
    + 8 * StoredBit(t, q + 3) + 16 * StoredBit(t, q + 4)
    + 32 * StoredBit(t, q + 5) + 64 * StoredBit(t, q + 6)
    + 128 * StoredBit(t, q + 7)

\* C11 (read_byte end-of-data): read_byte returns -1 and leaves the cursor
\* alone exactly when position >= ceil(bit_length/8); in every other state it
\* raises nothing, returns the 8 stored bits from bit_position on (a value in
\* 0..255, at any alignment) and advances bit_position by 8.
C11_ReadByteEndOfData ==
    op.name = "read_byte" =>
        IF position(pre) >= TrueLength(pre)
        THEN err = "none" /\ ret = <<-1>> /\ bit_position = pre.bit_position
        ELSE /\ err = "none"
             /\ Len(ret) = 1
             /\ ret[1] \in 0..255
             /\ (pre.bit_position >= 0
                 /\ pre.bit_position + 8 <= 8 * capacity(pre))
                => ret[1] = StoredByte(pre.target, pre.bit_position)
             /\ bit_position = pre.bit_position + 8

\* n successive write_byte calls on the bytes src[offset], src[offset+1], ...
RECURSIVE WriteBytes(_, _, _, _)
WriteBytes(b, src, offset, n) ==
    IF n = 0 THEN Ok(b, <<>>)
    ELSE LET w == write_byte(b, GetItem(src, offset))
         IN IF w.err # "none" THEN w
            ELSE WriteBytes(w.buf, src, offset + 1, n - 1)

\* C12 (bulk write is a loop of write_byte): on a resizable buffer, at any
\* alignment, write(b, offset, count) returns count and leaves the storage
\* below the logical length, bit_length and bit_position as count calls of
\* write_byte on b[offset], ..., b[offset+count-1] leave them: the cursor
\* advances by 8*count, bit_length follows it, the storage never shrinks.
C12_BulkWriteIsByteLoop ==
    LET n == WriteCount(op.a, op.c)
    IN (/\ op.name = "write"
        /\ pre.resizable
        /\ op.b >= 0
        /\ op.b + n <= Len(data)) =>
        LET ref == WriteBytes(pre, data, op.b, n)
        IN ref.err = "none" =>
            /\ err = "none"
            /\ ret = <<n>>
            /\ bit_position = ref.buf.bit_position
            /\ bit_position = pre.bit_position + 8 * n
            /\ bit_length = ref.buf.bit_length
            /\ capacity(Self) >= capacity(pre)
            /\ \A i \in 1..TrueLength(ref.buf) :
                  i <= Len(target) /\ target[i] = ref.buf.target[i]

\* what n successive read_byte calls return, up to the first that raises
RECURSIVE ReadBytes(_, _)
ReadBytes(b, n) ==
    IF n <= 0 THEN <<>>
    ELSE LET rd == read_byte(b)
         IN IF rd.err # "none" THEN <<>>
            ELSE <<rd.ret[1]>> \o ReadBytes(rd.buf, n - 1)

\* the bytes the last bulk read delivered
Delivered ==
    IF op.name = "read" THEN ret
    ELSE IF ret[1] <= 0 THEN <<>>
    ELSE [i \in 1..ret[1] |->
            IF IndexOk(into, op.b + i - 1) THEN GetItem(into, op.b + i - 1)
            ELSE -1]

\* the count the last bulk read was asked for
ReadCount ==
    IF op.name = "read"
    THEN (IF op.a < 0 THEN TrueLength(pre) ELSE op.a)
    ELSE (IF op.c < 0 THEN op.a ELSE op.c)

\* C13 (bulk read is bounded by the readable data): readinto and read deliver
\* at most min(count, length - position) bytes, never bytes beyond the logical
\* length; the bytes are those successive read_byte calls return and the
\* cursor advances by 8 bits per delivered byte.
C13_BulkReadBounded ==
    (op.name \in {"readinto", "read"} /\ err = "none") =>
        /\ Len(Delivered) <= Max(0, Min(ReadCount,
                                        TrueLength(pre) - position(pre)))
        /\ Delivered = ReadBytes(pre, Len(Delivered))
        /\ bit_position = pre.bit_position + 8 * Len(Delivered)

\* C14 (growth preserves data): on a resizable buffer a call that grows the
\* storage (write_byte, write_bit, bulk write, a length increase) leaves
\* bit_length not smaller than before and every storage byte below the old
\* capacity unchanged, apart from the bytes the write itself targets; every
\* byte written earlier and not targeted since still holds the value written,
\* in particular after 3 growths.
C14_GrowthPreservesData ==
    /\ capacity(Self) > capacity(pre) =>
          /\ bit_length >= pre.bit_length
          /\ \A i \in 0 .. (capacity(pre) - 1) :
                i \notin Targeted(op.name, pre, op.a)
                => GetItem(target, i) = GetItem(pre.target, i)
    /\ \A i \in DOMAIN written :
          IndexOk(target, i) /\ GetItem(target, i) = written[i].value

\* a write has just grown the storage for the third time and a byte written
\* before the first growth is still tracked
C14_Witness ==
    /\ grows >= 3
    /\ op.name \in WriteOps
    /\ capacity(Self) > capacity(pre)
    /\ \E i \in DOMAIN written : written[i].at = 0

\* C15 (construction): a buffer created with initial capacity c and no target
\* is resizable with capacity max(c, 16), bit_length 0 and bit_position 0; a
\* buffer created over N >= 1 bytes is non-resizable with capacity N,
\* bit_length 8*N, bit_position 0 and the supplied bytes as storage; creating
\* a buffer over a zero-length sequence raises ValueError.
C15_Construction ==
    op.name = "construct" =>
        IF ctor.kind = "new"
        THEN /\ err = "none"
             /\ resizable
             /\ capacity(Self) = Max(ctor.n, 16)
             /\ bit_length = 0
             /\ bit_position = 0
        ELSE IF Len(ctor.bytes) >= 1
        THEN /\ err = "none"
             /\ ~resizable
             /\ capacity(Self) = Len(ctor.bytes)
             /\ bit_length = 8 * Len(ctor.bytes)
             /\ bit_position = 0
             /\ target = ctor.bytes
        ELSE err = "ValueError"

\* a buffer was created with a requested capacity below the minimum
C15_Witness ==
    /\ op.name = "construct"
    /\ ctor.kind = "new"
    /\ ctor.n < 16
    /\ capacity(Self) = 16

\* C16 (capacity shrink clamps the cursor): after a successful capacity
\* assignment to a value v below the old capacity, bit_position is
\* min(old bit_position, v*8), bit_length is unchanged and the storage bytes
\* below v are unchanged.
C16_ShrinkClampsCursor ==
    (op.name = "set_capacity" /\ err = "none" /\ op.a < capacity(pre)) =>
        /\ bit_position = Min(pre.bit_position, 8 * op.a)
        /\ bit_length = pre.bit_length
        /\ \A i \in 0 .. (op.a - 1) :
              GetItem(target, i) = GetItem(pre.target, i)

\* the low r bits and the high 8 - r bits of a byte
LowBits(x, r) == x % Pow2(r)
HighBits(x, r) == x \div Pow2(8 - r)

\* C17 (misaligned write_byte split): on a resizable buffer with
\* r = bit_position mod 8 in 1..7, write_byte(value) for value in 0..255
\* raises nothing, stores the low 8-r bits of value in the high 8-r bits of
\* storage[position] and the high r bits of value in the low r bits of
\* storage[position+1], leaves the other bits of both bytes and every other
\* byte unchanged, and advances bit_position by 8.
C17_MisalignedWriteSplit ==
    LET r == pre.bit_position % 8
        p == pre.bit_position \div 8
    IN (/\ op.name = "write_byte"
        /\ pre.resizable
        /\ op.a \in 0..255
        /\ r \in 1..7
        /\ p >= 0
        /\ p + 1 < capacity(pre)) =>
        /\ err = "none"
        /\ bit_position = pre.bit_position + 8
        /\ capacity(Self) >= capacity(pre)
        /\ GetItem(target, p) =
              LowBits(GetItem(pre.target, p), r)
              + Pow2(r) * LowBits(op.a, 8 - r)
        /\ GetItem(target, p + 1) =
              HighBits(op.a, r)
              + Pow2(r) * HighBits(GetItem(pre.target, p + 1), 8 - r)
        /\ \A i \in 0 .. (capacity(pre) - 1) :
              i \notin {p, p + 1}
              => GetItem(target, i) = GetItem(pre.target, i)

\* C18 (read_bit selects the current bit): when bit_position < bit_length,
\* read_bit returns true iff bit (bit_position mod 8) of
\* storage[bit_position div 8] is set, at the cursor before the call,
\* advances bit_position by 1 and changes nothing else; when
\* bit_position >= bit_length it returns None and changes nothing.
C18_ReadBitSelectsCurrent ==
    op.name = "read_bit" =>
        IF pre.bit_position < pre.bit_length
        THEN (pre.bit_position >= 0
              /\ pre.bit_position < 8 * capacity(pre)) =>
                /\ err = "none"
                /\ ret = <<StoredBit(pre.target, pre.bit_position)>>
                /\ Self = [pre EXCEPT !.bit_position = pre.bit_position + 1]
        ELSE err = "none" /\ ret = <<>> /\ Self = pre

\* C19 (write_bit touches one bit only): on a resizable buffer whose cursor
\* lies in [0, capacity*8], write_bit(bit) sets bit (bit_position mod 8) of
\* storage[bit_position div 8] to bit, leaves the other 7 bits of that byte
\* and every other byte below the old capacity unchanged, advances
\* bit_position by 1 and sets bit_length to max(old bit_length, new
\* bit_position).
C19_WriteBitOneBit ==
    LET p == pre.bit_position \div 8
        r == pre.bit_position % 8
    IN (/\ op.name = "write_bit"
        /\ pre.resizable
        /\ pre.bit_position >= 0
        /\ pre.bit_position <= 8 * capacity(pre)) =>
        /\ err = "none"
        /\ IndexOk(target, p)
        /\ StoredBit(target, pre.bit_position) = op.a
        /\ p < capacity(pre) =>
              \A k \in 0..7 :
                 k # r => StoredBit(target, 8 * p + k)
                          = StoredBit(pre.target, 8 * p + k)
        /\ \A i \in 0 .. (capacity(pre) - 1) :
              i # p => GetItem(target, i) = GetItem(pre.target, i)
        /\ bit_position = pre.bit_position + 1
        /\ bit_length = Max(pre.bit_length, bit_position)

\* a set bit in the middle of a byte with other bits set was cleared
C19_Witness ==
    /\ op.name = "write_bit"
    /\ err = "none"
    /\ op.a = 0
    /\ pre.bit_position % 8 # 0
    /\ StoredBit(pre.target, pre.bit_position) = 1
    /\ GetItem(target, pre.bit_position \div 8) # 0

\* C20 (growth size): when a buffer of capacity c grows for a requested delta
\* d >= 1, the new capacity is max(c + d, 256, 2*c) if c < 2^30 and
\* max(c + d, 2^31 - 1) if c >= 2^30; it is at least c + d and greater than c.
C20_GrowthSize ==
    op.name = "grow_capacity" =>
        LET c == start
            d == data[1]
            n == got[1]
        IN /\ IF c < 1073741824
              THEN n = Max(Max(c + d, 256), 2 * c)
              ELSE n = Max(c + d, 2147483647)
           /\ n >= c + d
           /\ n > c

\* a capacity of 2^30 or more grew to 2^31 - 1
C20_Witness ==
    /\ op.name = "grow_capacity"
    /\ start >= 1073741824
    /\ got = <<2147483647>>

====
